---- MODULE Spec2Model ----
(***************************************************************************)
(* Model of the notification pipeline: the repository (DatabaseStorage),   *)
(* the event processor (processEvents, driven by setInterval), the         *)
(* ingestion endpoint (POST /api/events), the active-users jitter timer    *)
(* and the WebSocket registry with its two broadcasts.                     *)
(*                                                                         *)
(* Every await on a repository call is a suspension point.  One action of  *)
(* the model is one repository call together with the synchronous code    *)
(* that runs when it resolves, up to the next repository call.             *)
(*                                                                         *)
(* Optional values (undefined / SQL NULL) are sequences of length 0 or 1.  *)
(***************************************************************************)
EXTENDS Integers, Sequences, FiniteSets, TLC

\* ------------------------------------------------------------------ bounds
MaxEvents == 2        \* events created over a behaviour
MaxCycles == 2        \* processEvents invocations over a behaviour
MaxJitter == 1        \* runs of the jitter timer over a behaviour
MaxClock == 1         \* ticks of the wall clock over a behaviour
MaxConns == 1         \* WebSocket connections accepted over a behaviour
MaxAvg == 30          \* largest avgResponseTime the smoothing rule is tried on
MaxDeliveryTime == 80 \* largest deliveryTime the smoothing rule is tried on
MaxCalls == 2         \* direct calls of updateMetrics over a behaviour
MaxFailures == 1      \* repository calls that reject over a behaviour

\* --------------------------------------------------------------- constants
DefaultActiveUsers == 10247
DefaultNotificationsSent == 156429
DefaultAvgResponseTime == 23
DefaultQueueSize == 42
MinActiveUsers == 10000
DefaultLimit == 50           \* GET /api/notifications without ?limit
StatusOk == 200              \* res.json
StatusInvalid == 400         \* res.status(400): a ZodError

None == << >>
Some(v) == << v >>
IsSome(o) == Len(o) = 1
Get(o) == o[1]

Procs == 1 .. 2              \* overlapping invocations of processEvents
Reqs == {1}                  \* POST /api/events handlers
ConnIds == 1 .. MaxConns
Callers == 1 .. 2            \* concurrent direct callers of storage.updateMetrics
UserIds == 1 .. 2

\* users.username of the user with this id, once it is created.
UserName(id) == IF id = 1 THEN "bob" ELSE "alice"

VARIABLES
  users,          \* ids of the rows of table users
  events,         \* table events, in insertion (createdAt) order
  notifications,  \* table notifications, in insertion order
  metrics,        \* table system_metrics
  now,            \* the wall clock (Date.now(), new Date())
  proc,           \* the locals of each invocation of processEvents
  req,            \* the locals of each POST /api/events handler
  jit,            \* the locals of the jitter timer callback
  caller,         \* the locals of each direct caller of storage.updateMetrics
  conn,           \* the WebSocket connections and connectedClients
  inbox,          \* what each connection's peer has been sent
  budget,         \* what the behaviour may still do (the bounds)
  hist            \* history: what past steps did

store == << users, events, notifications, metrics >>
vars == << users, events, notifications, metrics, now, proc, req, jit, caller,
           conn, inbox, budget, hist >>

\* ------------------------------------------------------------- repository

\* Mutant of getUser: a placeholder user stands in for a missing row.
GetUserOrPlaceholder(id) == Some([id |-> id, username |-> UserName(id)])

\* getUser: the user row, or undefined.
getUser(id) == IF id \in users THEN Some([id |-> id, username |-> UserName(id)])
               ELSE None

\* The rows createEvent / createNotification insert.
EventRow(id, ins) ==
  [id |-> id, type |-> ins.type, actorId |-> ins.actorId,
   targetUserId |-> ins.targetUserId, contentId |-> ins.contentId,
   processed |-> FALSE]

NotificationRow(id, ins, src) ==
  [id |-> id, type |-> ins.type, actorId |-> ins.actorId,
   targetUserId |-> ins.targetUserId, contentId |-> ins.contentId,
   message |-> ins.message, delivered |-> FALSE, deliveryTime |-> None,
   src |-> src]

RECURSIVE SelectUnprocessed(_)
SelectUnprocessed(evs) ==
  IF evs = << >> THEN << >>
  ELSE IF Head(evs).processed THEN SelectUnprocessed(Tail(evs))
       ELSE << Head(evs) >> \o SelectUnprocessed(Tail(evs))

RECURSIVE Reverse(_)
Reverse(seq) ==
  IF seq = << >> THEN << >> ELSE Append(Reverse(Tail(seq)), Head(seq))

\* Mutant of getUnprocessedEvents: ordered by createdAt descending.
GetUnprocessedNewestFirst == Reverse(SelectUnprocessed(events))

\* Mutant of getUnprocessedEvents: the filter on processed is missing.
GetAllEvents == events

\* getUnprocessedEvents: processed = false, ordered by createdAt.
getUnprocessedEvents == SelectUnprocessed(events)

\* Mutant of markNotificationDelivered: the UPDATE matches no row.
MarkNoNotification(ns, id, deliveryTime) == ns

markNotificationDelivered(ns, id, deliveryTime) ==
  [i \in DOMAIN ns |->
     IF ns[i].id = id
     THEN [ns[i] EXCEPT !.delivered = TRUE, !.deliveryTime = Some(deliveryTime)]
     ELSE ns[i]]

markEventProcessed(evs, id) ==
  [i \in DOMAIN evs |->
     IF evs[i].id = id THEN [evs[i] EXCEPT !.processed = TRUE] ELSE evs[i]]

\* getAllNotifications: the newest limit rows, newest first.
getAllNotifications(limit) ==
  LET n == Len(notifications)
      m == IF limit < n THEN limit ELSE n IN
    [k \in 1 .. m |-> notifications[n + 1 - k]]

\* getLatestMetrics: the rows a "ORDER BY timestamp DESC LIMIT 1" may return.
LatestMetrics(rows) ==
  { rows[i] : i \in { j \in DOMAIN rows :
                        \A k \in DOMAIN rows : rows[k].timestamp <= rows[j].timestamp } }

\* Mutant of SetMetrics: a falsy value of updates leaves the field as it is.
SetMetricsTruthy(rows, id, updates, ts) ==
  [i \in DOMAIN rows |->
     IF rows[i].id = id
     THEN [f \in DOMAIN rows[i] |->
             IF f \in DOMAIN updates /\ updates[f] # (IF f = "errorRate" THEN "" ELSE 0)
             THEN updates[f]
             ELSE IF f = "timestamp" THEN ts
             ELSE rows[i][f]]
     ELSE rows[i]]

\* UPDATE system_metrics SET ...updates, timestamp WHERE id = ...
SetMetrics(rows, id, updates, ts) ==
  [i \in DOMAIN rows |->
     IF rows[i].id = id
     THEN [f \in DOMAIN rows[i] |->
             IF f \in DOMAIN updates THEN updates[f]
             ELSE IF f = "timestamp" THEN ts
             ELSE rows[i][f]]
     ELSE rows[i]]

\* a || b of JavaScript on an optional number / string field of updates.
OrNum(updates, f, d) ==
  IF f \in DOMAIN updates /\ updates[f] # 0 THEN updates[f] ELSE d
OrStr(updates, f, d) ==
  IF f \in DOMAIN updates /\ updates[f] # "" THEN updates[f] ELSE d

\* INSERT INTO system_metrics of updateMetrics when no row exists.
InsertMetrics(rows, updates, ts) ==
  Append(rows,
    [id |-> Len(rows) + 1,
     activeUsers |-> OrNum(updates, "activeUsers", DefaultActiveUsers),
     notificationsSent |-> OrNum(updates, "notificationsSent", DefaultNotificationsSent),
     avgResponseTime |-> OrNum(updates, "avgResponseTime", DefaultAvgResponseTime),
     errorRate |-> OrStr(updates, "errorRate", "0.03%"),
     queueSize |-> OrNum(updates, "queueSize", DefaultQueueSize),
     timestamp |-> ts])

\* The second half of updateMetrics: target is what its own getLatestMetrics
\* returned.
updateMetrics(rows, target, updates, ts) ==
  IF IsSome(target) THEN SetMetrics(rows, Get(target).id, updates, ts)
  ELSE InsertMetrics(rows, updates, ts)

\* ------------------------------------------------------------- pure parts

\* Mutant of NotificationMessage: the case for follow is missing.
NotificationMessageNoFollow(type, username) ==
  CASE type = "like" -> username \o " liked your post"
    [] type = "comment" -> username \o " commented on your post"
    [] type = "share" -> username \o " shared your post"
    [] OTHER -> username \o " interacted with your content"

\* The switch on event.type of processEvents.
NotificationMessage(type, username) ==
  CASE type = "like" -> username \o " liked your post"
    [] type = "comment" -> username \o " commented on your post"
    [] type = "share" -> username \o " shared your post"
    [] type = "follow" -> username \o " started following you"
    [] OTHER -> username \o " interacted with your content"

\* Mutant of MathRound: the quotient is truncated (Math.floor).
MathFloor(n, d) == n \div d

\* Math.round(n / d) for d > 0: floor(n / d + 1/2).
MathRound(n, d) == (2 * n + d) \div (2 * d)

Max(a, b) == IF a >= b THEN a ELSE b

\* Mutant of ProcessorUpdates: the fields that were read are written back too.
ProcessorUpdatesWholeRow(currentMetrics, deliveryTime) ==
  [activeUsers |-> currentMetrics.activeUsers,
   notificationsSent |-> currentMetrics.notificationsSent + 1,
   avgResponseTime |-> (2 * (currentMetrics.avgResponseTime + deliveryTime) + 2) \div 4,
   errorRate |-> currentMetrics.errorRate,
   queueSize |-> IF currentMetrics.queueSize > 0 THEN currentMetrics.queueSize - 1 ELSE 0]

\* Mutant of ProcessorUpdates: queueSize is decremented without the clamp.
ProcessorUpdatesNoClamp(currentMetrics, deliveryTime) ==
  [notificationsSent |-> currentMetrics.notificationsSent + 1,
   avgResponseTime |-> MathRound(currentMetrics.avgResponseTime + deliveryTime, 2),
   queueSize |-> currentMetrics.queueSize - 1]

\* The partial update processEvents hands to updateMetrics.
ProcessorUpdates(currentMetrics, deliveryTime) ==
  [notificationsSent |-> currentMetrics.notificationsSent + 1,
   avgResponseTime |-> MathRound(currentMetrics.avgResponseTime + deliveryTime, 2),
   queueSize |-> Max(0, currentMetrics.queueSize - 1)]

\* The partial update POST /api/events hands to updateMetrics.
IngestUpdates(currentMetrics) == [queueSize |-> currentMetrics.queueSize + 1]

\* The partial update the jitter timer hands to updateMetrics.
JitterUpdates(currentMetrics, variation) ==
  [activeUsers |->
     Max(MinActiveUsers,
         (IF currentMetrics.activeUsers = 0 THEN DefaultActiveUsers
          ELSE currentMetrics.activeUsers) + variation)]

\* ------------------------------------------------------------ broadcasting

IsOpen(c) == conn[c].registered /\ conn[c].readyState = "OPEN"

\* Mutant of Broadcast: readyState is not looked at.
BroadcastToRegistered(box, message) ==
  [c \in ConnIds |-> IF conn[c].registered THEN Append(box[c], message) ELSE box[c]]

\* connectedClients.forEach: send to every registered client that is OPEN.
Broadcast(box, message) ==
  [c \in ConnIds |-> IF IsOpen(c) THEN Append(box[c], message) ELSE box[c]]

broadcastNotification(box, notification) ==
  Broadcast(box, [type |-> "notification", data |-> notification])

broadcastMetrics(box, m) == Broadcast(box, [type |-> "metrics", data |-> m])

\* connectedClients.forEach when ws.send throws for client c: the clients
\* added before c have been served, c and those after it are not.
BroadcastUpTo(box, message, c) ==
  [d \in ConnIds |-> IF IsOpen(d) /\ d < c THEN Append(box[d], message) ELSE box[d]]

\* What processEvents passes to broadcastNotification: the row that
\* createNotification returned, the actor's username and deliveryTime.
NotificationPayload(notification, actor, deliveryTime) ==
  [id |-> notification.id, type |-> notification.type,
   actorId |-> notification.actorId, targetUserId |-> notification.targetUserId,
   contentId |-> notification.contentId, message |-> notification.message,
   delivered |-> notification.delivered, actor |-> actor.username,
   deliveryTime |-> Some(deliveryTime)]

\* ---------------------------------------------------------- processEvents

IdleProc ==
  [pc |-> "idle", events |-> << >>, i |-> 0, startTime |-> 0, actor |-> None,
   message |-> "", notification |-> None, deliveryTime |-> 0,
   currentMetrics |-> None, target |-> None,
   before |-> {}, present |-> {}, clean |-> {}, failed |-> {}]

\* The top of the for loop for the event at index i: startTime = Date.now()
\* and the call of getUser.  before and present record, for the properties,
\* the snapshot's notificationsSent and the open connections at that moment.
Iterate(pr, i) ==
  [pr EXCEPT !.pc = "getUser", !.i = i, !.startTime = now, !.actor = None,
             !.message = "", !.notification = None, !.deliveryTime = 0,
             !.currentMetrics = None, !.target = None,
             !.before = { r.notificationsSent : r \in LatestMetrics(metrics) },
             !.present = { c \in ConnIds : IsOpen(c) }]

\* Mutant of Advance: a missing actor leaves the loop (break for continue).
AdvanceOrBreak(pr) ==
  IF pr.pc = "getUser" THEN IdleProc
  ELSE IF pr.i < Len(pr.events)
       THEN [pr EXCEPT !.pc = "getUser", !.i = pr.i + 1, !.startTime = now,
                       !.actor = None, !.message = "", !.notification = None,
                       !.deliveryTime = 0, !.currentMetrics = None, !.target = None,
                       !.before = { r.notificationsSent : r \in LatestMetrics(metrics) },
                       !.present = { c \in ConnIds : conn[c].registered
                                                     /\ conn[c].readyState = "OPEN" }]
       ELSE IdleProc

\* The end of one iteration, by falling through, continue or catch: on to
\* the next event of the batch, or the end of the cycle.
Advance(pr) ==
  IF pr.i < Len(pr.events) THEN Iterate(pr, pr.i + 1) ELSE IdleProc

\* The iteration of pr ends without an error for an event whose actor
\* resolved: clean records that for the properties.
Carried(pr) == [pr EXCEPT !.clean = @ \cup {pr.events[pr.i].id}]

\* Mutant of Caught: the error leaves the loop.
CaughtOutsideLoop(pr) == IdleProc

\* The catch block of the loop body: the error is logged and the loop goes
\* on; failed records the event for the properties.
Caught(pr) == Advance([pr EXCEPT !.failed = @ \cup {pr.events[pr.i].id}])

\* The history when an iteration ends as pr: a cycle that ends hands over
\* the events it carried through without an error.
EndIteration(h, pr) ==
  IF pr.i < Len(pr.events) THEN h ELSE [h EXCEPT !.completed = @ \cup pr.clean]

\* For the properties: the fields of the snapshot that have changed since
\* writer read it as currentMetrics, at the moment writer's update lands.
StaleFields(writer, currentMetrics) ==
  { << writer, f >> : f \in { g \in {"activeUsers", "notificationsSent", "queueSize"} :
      \E i \in DOMAIN metrics :
        metrics[i].id = currentMetrics.id /\ metrics[i][g] # currentMetrics[g] } }

\* setInterval fires, getUnprocessedEvents resolves and the loop starts.  An
\* invocation takes the lowest free slot.
StartCycle(p) ==
  /\ proc[p].pc = "idle"
  /\ \A q \in Procs : q < p => proc[q].pc # "idle"
  /\ budget.cycles > 0
  /\ budget' = [budget EXCEPT !.cycles = @ - 1]
  /\ LET evs == getUnprocessedEvents IN
       IF evs = << >>
       THEN /\ proc' = [proc EXCEPT ![p] = IdleProc]
            /\ hist' = [hist EXCEPT !.idleSaw = @ \cup {Len(events)}]
       ELSE /\ proc' = [proc EXCEPT ![p] = Iterate([IdleProc EXCEPT !.events = evs], 1)]
            /\ UNCHANGED hist
  /\ UNCHANGED caller
  /\ UNCHANGED << store, now, req, jit, conn, inbox >>

\* Mutant of GetUser: an event whose actor is missing is given up, marked
\* processed.
GetUserGivesUp(p) ==
  /\ proc[p].pc = "getUser"
  /\ LET pr == proc[p]
         event == pr.events[pr.i]
         actor == getUser(event.actorId) IN
       IF ~IsSome(actor)
       THEN /\ proc' = [proc EXCEPT ![p] = Advance(pr)]
            /\ hist' = [EndIteration(hist, pr) EXCEPT !.skips = @ + 1]
            /\ events' = markEventProcessed(events, event.id)
       ELSE /\ proc' = [proc EXCEPT ![p] =
                 [pr EXCEPT !.pc = "createNotification", !.actor = actor,
                            !.message = NotificationMessage(event.type,
                                                            Get(actor).username)]]
            /\ UNCHANGED << hist, events >>
  /\ UNCHANGED << users, notifications, metrics, now, req, jit, caller, conn,
                  inbox, budget >>

\* getUser resolves: continue when there is no actor, else build the message
\* and call createNotification.
GetUser(p) ==
  /\ proc[p].pc = "getUser"
  /\ LET pr == proc[p]
         event == pr.events[pr.i]
         actor == getUser(event.actorId) IN
       IF ~IsSome(actor)
       THEN /\ proc' = [proc EXCEPT ![p] = Advance(pr)]
            /\ hist' = [EndIteration(hist, pr) EXCEPT !.skips = @ + 1]
       ELSE /\ proc' = [proc EXCEPT ![p] =
                 [pr EXCEPT !.pc = "createNotification", !.actor = actor,
                            !.message = NotificationMessage(event.type,
                                                            Get(actor).username)]]
            /\ UNCHANGED hist
  /\ UNCHANGED caller
  /\ UNCHANGED << store, now, req, jit, conn, inbox, budget >>

\* createNotification resolves with the inserted row; deliveryTime is taken
\* and markNotificationDelivered called.
CreateNotification(p) ==
  /\ proc[p].pc = "createNotification"
  /\ LET pr == proc[p]
         event == pr.events[pr.i]
         row == NotificationRow(Len(notifications) + 1,
                  [type |-> event.type, actorId |-> event.actorId,
                   targetUserId |-> event.targetUserId,
                   contentId |-> event.contentId, message |-> pr.message],
                  event.id) IN
       /\ notifications' = Append(notifications, row)
       /\ proc' = [proc EXCEPT ![p] =
            [pr EXCEPT !.pc = "markNotificationDelivered",
                       !.notification = Some(row),
                       !.deliveryTime = now - pr.startTime]]
  /\ UNCHANGED caller
  /\ UNCHANGED << users, events, metrics, now, req, jit, conn, inbox, budget, hist >>

MarkNotificationDelivered(p) ==
  /\ proc[p].pc = "markNotificationDelivered"
  /\ notifications' = markNotificationDelivered(notifications,
                        Get(proc[p].notification).id, proc[p].deliveryTime)
  /\ proc' = [proc EXCEPT ![p].pc = "markEventProcessed"]
  /\ UNCHANGED caller
  /\ UNCHANGED << users, events, metrics, now, req, jit, conn, inbox, budget, hist >>

\* markEventProcessed resolves; the notification is broadcast and
\* getLatestMetrics called.
MarkEventProcessed(p) ==
  /\ proc[p].pc = "markEventProcessed"
  /\ LET pr == proc[p] IN
       /\ events' = markEventProcessed(events, pr.events[pr.i].id)
       /\ inbox' = broadcastNotification(inbox,
                     NotificationPayload(Get(pr.notification), Get(pr.actor),
                                         pr.deliveryTime))
       /\ proc' = [proc EXCEPT ![p].pc = "getLatestMetrics"]
  /\ UNCHANGED caller
  /\ UNCHANGED << users, notifications, metrics, now, req, jit, conn, budget, hist >>

\* getLatestMetrics resolves: without a snapshot the iteration is over, with
\* one updateMetrics is called.
GetLatestMetrics(p) ==
  /\ proc[p].pc = "getLatestMetrics"
  /\ LET pr == proc[p] IN
       IF metrics = << >>
       THEN /\ proc' = [proc EXCEPT ![p] = Advance(Carried(pr))]
            /\ hist' = EndIteration(hist, Carried(pr))
       ELSE /\ \E m \in LatestMetrics(metrics) :
                 proc' = [proc EXCEPT ![p] =
                   [pr EXCEPT !.pc = "updateMetrics", !.currentMetrics = Some(m)]]
            /\ UNCHANGED hist
  /\ UNCHANGED caller
  /\ UNCHANGED << store, now, req, jit, conn, inbox, budget >>

\* Inside updateMetrics: its own getLatestMetrics resolves.
UpdateMetricsRead(p) ==
  /\ proc[p].pc = "updateMetrics"
  /\ IF metrics = << >>
     THEN proc' = [proc EXCEPT ![p].pc = "updateMetricsWrite", ![p].target = None]
     ELSE \E m \in LatestMetrics(metrics) :
            proc' = [proc EXCEPT ![p].pc = "updateMetricsWrite", ![p].target = Some(m)]
  /\ UNCHANGED caller
  /\ UNCHANGED << store, now, req, jit, conn, inbox, budget, hist >>

\* Inside updateMetrics: the UPDATE (or INSERT) resolves; the second
\* getLatestMetrics of processEvents is called.
UpdateMetricsWrite(p) ==
  /\ proc[p].pc = "updateMetricsWrite"
  /\ LET pr == proc[p] IN
       /\ metrics' = updateMetrics(metrics, pr.target,
                       ProcessorUpdates(Get(pr.currentMetrics), pr.deliveryTime), now)
       /\ hist' = [hist EXCEPT !.decrements = @ + 1,
                               !.stale = @ \cup StaleFields("processor", Get(pr.currentMetrics))]
  /\ proc' = [proc EXCEPT ![p].pc = "getUpdatedMetrics"]
  /\ UNCHANGED caller
  /\ UNCHANGED << users, events, notifications, now, req, jit, conn, inbox, budget >>

\* The second getLatestMetrics resolves; the snapshot is broadcast and the
\* iteration ends.
GetUpdatedMetrics(p) ==
  /\ proc[p].pc = "getUpdatedMetrics"
  /\ LET pr == proc[p] IN
       /\ \E m \in LatestMetrics(metrics) :
            inbox' = broadcastMetrics(inbox, Some(m))
       /\ proc' = [proc EXCEPT ![p] = Advance(Carried(pr))]
       /\ hist' = EndIteration(hist, Carried(pr))
  /\ UNCHANGED caller
  /\ UNCHANGED << store, now, req, jit, conn, budget >>

\* The repository call that invocation p is waiting for rejects: nothing is
\* written and the catch block takes over.
CatchError(p) ==
  /\ proc[p].pc # "idle"
  /\ budget.failures > 0
  /\ budget' = [budget EXCEPT !.failures = @ - 1]
  /\ proc' = [proc EXCEPT ![p] = Caught(proc[p])]
  /\ hist' = EndIteration(hist, proc[p])
  /\ UNCHANGED caller
  /\ UNCHANGED << store, now, req, jit, conn, inbox >>

\* markEventProcessed resolves and ws.send throws for the open client c
\* inside broadcastNotification: the exception leaves forEach and
\* broadcastNotification and lands in the catch block of the loop body.
BroadcastNotificationThrows(p, c) ==
  /\ proc[p].pc = "markEventProcessed"
  /\ IsOpen(c)
  /\ budget.failures > 0
  /\ budget' = [budget EXCEPT !.failures = @ - 1]
  /\ LET pr == proc[p] IN
       /\ events' = markEventProcessed(events, pr.events[pr.i].id)
       /\ inbox' = BroadcastUpTo(inbox,
                     [type |-> "notification",
                      data |-> NotificationPayload(Get(pr.notification),
                                                   Get(pr.actor), pr.deliveryTime)],
                     c)
       /\ proc' = [proc EXCEPT ![p] = Caught(pr)]
       /\ hist' = EndIteration(hist, pr)
  /\ UNCHANGED caller
  /\ UNCHANGED << users, notifications, metrics, now, req, jit, conn >>

\* -------------------------------------------------------- POST /api/events

\* body is the body of the last request and res the status it was answered
\* with; seen records, for the properties, the snapshot table as it was when
\* the request began.
IdleReq == [pc |-> "idle", body |-> None, res |-> None, currentMetrics |-> None,
            target |-> None, seen |-> << >>]

\* res.json / res.status(...).json: the handler is over.
Respond(rq, status) == [IdleReq EXCEPT !.body = rq.body, !.res = Some(status)]

\* insertEventSchema.parse: type, actorId and targetUserId are required.
ValidEvent(body) ==
  /\ {"type", "actorId", "targetUserId"} \subseteq DOMAIN body
  /\ body.actorId \in Int
  /\ body.targetUserId \in Int

\* The contentId that createEvent stores: insertEvent.contentId || null.
ContentIdOf(body) ==
  IF "contentId" \in DOMAIN body /\ body.contentId # "" THEN Some(body.contentId)
  ELSE None

\* A request with a valid body: createEvent resolves, getLatestMetrics is
\* called.
CreateEvent(r, body) ==
  /\ req[r].pc = "idle"
  /\ ValidEvent(body)
  /\ budget.events > 0
  /\ budget' = [budget EXCEPT !.events = @ - 1]
  /\ events' = Append(events,
       EventRow(Len(events) + 1,
                [type |-> body.type, actorId |-> body.actorId,
                 targetUserId |-> body.targetUserId,
                 contentId |-> ContentIdOf(body)]))
  /\ req' = [req EXCEPT ![r] = [IdleReq EXCEPT !.pc = "getLatestMetrics",
                                               !.body = Some(body),
                                               !.seen = metrics]]
  /\ UNCHANGED caller
  /\ UNCHANGED << users, notifications, metrics, now, proc, jit, conn, inbox, hist >>

\* Mutant of RejectEvent: a row is inserted before the body is parsed.
RejectEventAfterInsert(r, body) ==
  /\ req[r].pc = "idle"
  /\ ~ValidEvent(body)
  /\ events' = Append(events,
       EventRow(Len(events) + 1,
                [type |-> "", actorId |-> 0, targetUserId |-> 0,
                 contentId |-> ContentIdOf(body)]))
  /\ req' = [req EXCEPT ![r] = [IdleReq EXCEPT !.body = Some(body),
                                               !.res = Some(StatusInvalid)]]
  /\ UNCHANGED caller
  /\ UNCHANGED << users, notifications, metrics, now, proc, jit, conn, inbox,
                  budget, hist >>

\* A request whose body insertEventSchema.parse throws on: the ZodError is
\* caught and answered with 400 before any repository call.
RejectEvent(r, body) ==
  /\ req[r].pc = "idle"
  /\ ~ValidEvent(body)
  /\ req' = [req EXCEPT ![r] = [IdleReq EXCEPT !.body = Some(body),
                                               !.res = Some(StatusInvalid)]]
  /\ UNCHANGED caller
  /\ UNCHANGED << store, now, proc, jit, conn, inbox, budget, hist >>

\* getLatestMetrics resolves: without a snapshot the response is sent.
ReqGetLatestMetrics(r) ==
  /\ req[r].pc = "getLatestMetrics"
  /\ IF metrics = << >>
     THEN req' = [req EXCEPT ![r] = Respond(req[r], StatusOk)]
     ELSE \E m \in LatestMetrics(metrics) :
            req' = [req EXCEPT ![r].pc = "updateMetrics", ![r].currentMetrics = Some(m)]
  /\ UNCHANGED caller
  /\ UNCHANGED << store, now, proc, jit, conn, inbox, budget, hist >>

ReqUpdateMetricsRead(r) ==
  /\ req[r].pc = "updateMetrics"
  /\ IF metrics = << >>
     THEN req' = [req EXCEPT ![r].pc = "updateMetricsWrite", ![r].target = None]
     ELSE \E m \in LatestMetrics(metrics) :
            req' = [req EXCEPT ![r].pc = "updateMetricsWrite", ![r].target = Some(m)]
  /\ UNCHANGED caller
  /\ UNCHANGED << store, now, proc, jit, conn, inbox, budget, hist >>

\* The UPDATE of updateMetrics resolves and the response is sent.
ReqUpdateMetricsWrite(r) ==
  /\ req[r].pc = "updateMetricsWrite"
  /\ metrics' = updateMetrics(metrics, req[r].target,
                  IngestUpdates(Get(req[r].currentMetrics)), now)
  /\ hist' = [hist EXCEPT !.increments = @ + 1,
                          !.stale = @ \cup StaleFields("ingestion", Get(req[r].currentMetrics))]
  /\ req' = [req EXCEPT ![r] = Respond(req[r], StatusOk)]
  /\ UNCHANGED caller
  /\ UNCHANGED << users, events, notifications, now, proc, jit, conn, inbox, budget >>

\* ------------------------------------------------------------ jitter timer

IdleJit == [pc |-> "idle", currentMetrics |-> None, variation |-> 0,
            target |-> None]

\* Math.floor(Math.random() * 20) - 10 lies in -10 .. 9: the two extremes.
Variations == {-10, 9}

\* The timer fires and getLatestMetrics resolves.
JitterGetLatestMetrics(variation) ==
  /\ jit.pc = "idle"
  /\ budget.jitters > 0
  /\ budget' = [budget EXCEPT !.jitters = @ - 1]
  /\ IF metrics = << >>
     THEN jit' = IdleJit
     ELSE \E m \in LatestMetrics(metrics) :
            jit' = [IdleJit EXCEPT !.pc = "updateMetrics", !.currentMetrics = Some(m),
                                   !.variation = variation]
  /\ UNCHANGED caller
  /\ UNCHANGED << store, now, proc, req, conn, inbox, hist >>

JitterUpdateMetricsRead ==
  /\ jit.pc = "updateMetrics"
  /\ IF metrics = << >>
     THEN jit' = [jit EXCEPT !.pc = "updateMetricsWrite", !.target = None]
     ELSE \E m \in LatestMetrics(metrics) :
            jit' = [jit EXCEPT !.pc = "updateMetricsWrite", !.target = Some(m)]
  /\ UNCHANGED caller
  /\ UNCHANGED << store, now, proc, req, conn, inbox, budget, hist >>

JitterUpdateMetricsWrite ==
  /\ jit.pc = "updateMetricsWrite"
  /\ LET updates == JitterUpdates(Get(jit.currentMetrics), jit.variation) IN
       /\ metrics' = updateMetrics(metrics, jit.target, updates, now)
       /\ hist' = [hist EXCEPT !.jitterWrote = Some(updates.activeUsers),
                               !.stale = @ \cup StaleFields("jitter", Get(jit.currentMetrics))]
  /\ jit' = IdleJit
  /\ UNCHANGED caller
  /\ UNCHANGED << users, events, notifications, now, proc, req, conn, inbox, budget >>

\* ------------------------------------------------------------- connections

NoConn == [readyState |-> "CONNECTING", registered |-> FALSE, userId |-> None]

\* wss.on('connection'): the client is added to connectedClients.  Clients
\* are numbered in the order they are added, the order forEach visits them.
Connect(c) ==
  /\ conn[c] = NoConn
  /\ \A d \in ConnIds : d < c => conn[d] # NoConn
  /\ conn' = [conn EXCEPT ![c] = [NoConn EXCEPT !.readyState = "OPEN",
                                                !.registered = TRUE]]
  /\ UNCHANGED caller
  /\ UNCHANGED << store, now, proc, req, jit, inbox, budget, hist >>

\* ws.on('message') with {type: 'authenticate', userId}: a truthy userId is
\* attached to the client.
AuthIds == {0, 1, 2}

Authenticate(c, userId) ==
  /\ conn[c].registered
  /\ conn[c].readyState = "OPEN"
  /\ conn' = IF userId # 0 THEN [conn EXCEPT ![c].userId = Some(userId)] ELSE conn
  /\ UNCHANGED caller
  /\ UNCHANGED << store, now, proc, req, jit, inbox, budget, hist >>

\* The socket leaves OPEN; its close event has not been dispatched yet.
SocketCloses(c) ==
  /\ conn[c].readyState = "OPEN"
  /\ conn' = [conn EXCEPT ![c].readyState = "CLOSED"]
  /\ UNCHANGED caller
  /\ UNCHANGED << store, now, proc, req, jit, inbox, budget, hist >>

\* ws.on('close') / ws.on('error'): the client leaves connectedClients.
OnClose(c) ==
  /\ conn[c].readyState = "CLOSED"
  /\ conn[c].registered
  /\ conn' = [conn EXCEPT ![c].registered = FALSE]
  /\ UNCHANGED caller
  /\ UNCHANGED << store, now, proc, req, jit, inbox, budget, hist >>

\* ------------------------------------------------------------- environment

\* The wall clock advances.
Tick ==
  /\ budget.ticks > 0
  /\ budget' = [budget EXCEPT !.ticks = @ - 1]
  /\ now' = now + 1
  /\ UNCHANGED caller
  /\ UNCHANGED << store, proc, req, jit, conn, inbox, hist >>

\* createUser: a user row appears.
CreateUser(u) ==
  /\ u \notin users
  /\ users' = users \cup {u}
  /\ UNCHANGED caller
  /\ UNCHANGED << events, notifications, metrics, now, proc, req, jit, conn,
                  inbox, budget, hist >>

IdleCaller == [pc |-> "idle", updates |-> << >>, target |-> None]

\* A caller calls storage.updateMetrics(updates) while others may be inside
\* it: the getLatestMetrics of updateMetrics resolves.  A caller takes the
\* lowest free slot.
CallerRead(k, updates) ==
  /\ caller[k].pc = "idle"
  /\ \A j \in Callers : j < k => caller[j].pc # "idle"
  /\ hist.calls < MaxCalls
  /\ hist' = [hist EXCEPT !.calls = @ + 1]
  /\ \E target \in IF metrics = << >> THEN {None}
                    ELSE { Some(m) : m \in LatestMetrics(metrics) } :
       caller' = [caller EXCEPT ![k] = [pc |-> "write", updates |-> updates,
                                        target |-> target]]
  /\ UNCHANGED << store, now, proc, req, jit, conn, inbox, budget >>

\* The UPDATE or INSERT of that updateMetrics resolves.
CallerWrite(k) ==
  /\ caller[k].pc = "write"
  /\ metrics' = updateMetrics(metrics, caller[k].target, caller[k].updates, now)
  /\ caller' = [caller EXCEPT ![k] = IdleCaller]
  /\ UNCHANGED << users, events, notifications, now, proc, req, jit, conn, inbox,
                  budget, hist >>

\* A caller awaits storage.updateMetrics(updates) with nothing else running:
\* its getLatestMetrics and its UPDATE or INSERT.  The history keeps the
\* argument and the table as it was.
CallUpdateMetrics(updates) ==
  /\ hist.calls < MaxCalls
  /\ now' = now + 1
  /\ \E target \in IF metrics = << >> THEN {None}
                    ELSE { Some(m) : m \in LatestMetrics(metrics) } :
       metrics' = updateMetrics(metrics, target, updates, now')
  /\ hist' = [hist EXCEPT !.calls = @ + 1,
                          !.call = Some([updates |-> updates, before |-> metrics])]
  /\ UNCHANGED caller
  /\ UNCHANGED << users, events, notifications, proc, req, jit, conn, inbox, budget >>

\* setInterval fires and getUnprocessedEvents rejects.  The await is outside
\* the try block and nobody awaits processEvents, so the rejection is
\* unhandled: the runtime either only warns, or (the default since Node 15)
\* terminates the process, and with it every timer and handler.
FetchFails(p, exits) ==
  /\ proc[p].pc = "idle"
  /\ \A q \in Procs : q < p => proc[q].pc # "idle"
  /\ budget.cycles > 0
  /\ budget.failures > 0
  /\ IF exits
     THEN /\ budget' = [events |-> 0, cycles |-> 0, jitters |-> 0, ticks |-> 0,
                        failures |-> 0]
          /\ proc' = [q \in Procs |-> IdleProc]
          /\ req' = [r \in Reqs |-> IdleReq]
          /\ jit' = IdleJit
          /\ hist' = [hist EXCEPT !.exited = TRUE]
     ELSE /\ budget' = [budget EXCEPT !.cycles = @ - 1, !.failures = @ - 1]
          /\ UNCHANGED << proc, req, jit, hist >>
  /\ UNCHANGED caller
  /\ UNCHANGED << store, now, conn, inbox >>

\* ----------------------------------------------------------- specifications

\* A snapshot row as updateMetrics inserts it, with the given smoothed
\* latency and backlog.
SeedMetrics(avgResponseTime, queueSize) ==
  [id |-> 1, activeUsers |-> DefaultActiveUsers,
   notificationsSent |-> DefaultNotificationsSent,
   avgResponseTime |-> avgResponseTime, errorRate |-> "0.03%",
   queueSize |-> queueSize, timestamp |-> 0]

Budget(e, c, j, t) ==
  [events |-> e, cycles |-> c, jitters |-> j, ticks |-> t, failures |-> 0]

InitHist(ms) ==
  [increments |-> 0, decrements |-> 0, jitterWrote |-> None, completed |-> {},
   skips |-> 0, idleSaw |-> {}, stale |-> {}, initial |-> ms,
   calls |-> 0, call |-> None, exited |-> FALSE]

\* The server after start-up: user 1 exists, nothing has been submitted.
InitWith(ms, b) ==
  /\ users = {1}
  /\ events = << >>
  /\ notifications = << >>
  /\ metrics = ms
  /\ now = 0
  /\ proc = [p \in Procs |-> IdleProc]
  /\ req = [r \in Reqs |-> IdleReq]
  /\ jit = IdleJit
  /\ caller = [k \in Callers |-> IdleCaller]
  /\ conn = [c \in ConnIds |-> NoConn]
  /\ inbox = [c \in ConnIds |-> << >>]
  /\ budget = b
  /\ hist = InitHist(ms)

\* The request bodies of the concurrency specifications.
Bodies == { [type |-> "like", actorId |-> a, targetUserId |-> 2] : a \in UserIds }

Processor(p) ==
  \/ StartCycle(p)
  \/ GetUser(p)
  \/ CreateNotification(p)
  \/ MarkNotificationDelivered(p)
  \/ MarkEventProcessed(p)
  \/ GetLatestMetrics(p)
  \/ UpdateMetricsRead(p)
  \/ UpdateMetricsWrite(p)
  \/ GetUpdatedMetrics(p)

Ingestion(r, bodies) ==
  \/ \E body \in bodies : CreateEvent(r, body)
  \/ ReqGetLatestMetrics(r)
  \/ ReqUpdateMetricsRead(r)
  \/ ReqUpdateMetricsWrite(r)

Jitter ==
  \/ \E v \in Variations : JitterGetLatestMetrics(v)
  \/ JitterUpdateMetricsRead
  \/ JitterUpdateMetricsWrite

Connections(c) ==
  \/ Connect(c)
  \/ SocketCloses(c)
  \/ OnClose(c)

\* Overlapping processing cycles and ingestion, with or without a snapshot.
Init ==
  \E ms \in {<< >>, << SeedMetrics(DefaultAvgResponseTime, 1) >>} :
    InitWith(ms, Budget(MaxEvents, MaxCycles, 0, 0))

Next ==
  \/ \E p \in Procs : Processor(p)
  \/ \E r \in Reqs : Ingestion(r, Bodies)
  \/ CreateUser(2)

Spec == Init /\ [][Next]_vars

\* The processor's metrics update against the jitter timer, with ingestion.
InitJitter ==
  InitWith(<< SeedMetrics(DefaultAvgResponseTime, 1) >>,
           Budget(MaxEvents, MaxCycles, MaxJitter, MaxClock))

NextJitter ==
  \/ Processor(1)
  \/ \E r \in Reqs : Ingestion(r, Bodies)
  \/ Jitter
  \/ Tick

SpecJitter == InitJitter /\ [][NextJitter]_vars

\* Overlapping cycles in front of WebSocket subscribers.
BroadcastEvents == 1   \* events created over a behaviour of SpecBroadcast

InitBroadcast ==
  InitWith(<< SeedMetrics(DefaultAvgResponseTime, 1) >>,
           Budget(BroadcastEvents, MaxCycles, 0, 0))

NextBroadcast ==
  \/ \E p \in Procs : Processor(p)
  \/ \E r \in Reqs : Ingestion(r, Bodies)
  \/ \E c \in ConnIds : Connections(c)

SpecBroadcast == InitBroadcast /\ [][NextBroadcast]_vars

\* One invocation at a time in front of subscribers that come, authenticate
\* and go.
InitRegistry ==
  InitWith(<< SeedMetrics(DefaultAvgResponseTime, 1) >>,
           Budget(BroadcastEvents, MaxCycles, 0, 0))

NextRegistry ==
  \/ Processor(1)
  \/ \E r \in Reqs : Ingestion(r, Bodies)
  \/ \E c \in ConnIds : Connections(c)
  \/ \E c \in ConnIds, u \in AuthIds : Authenticate(c, u)

SpecRegistry == InitRegistry /\ [][NextRegistry]_vars

\* Ingestion of well-formed and malformed bodies next to one invocation.
MalformedBodies ==
  { [type |-> "like", actorId |-> 1],
    [type |-> "like", targetUserId |-> 2],
    [actorId |-> 1, targetUserId |-> 2],
    [contentId |-> "post-9"] }

InitValidation ==
  InitWith(<< SeedMetrics(DefaultAvgResponseTime, 1) >>,
           Budget(MaxEvents, MaxCycles, 0, 0))

NextValidation ==
  \/ Processor(1)
  \/ \E r \in Reqs : Ingestion(r, Bodies)
  \/ \E r \in Reqs, body \in MalformedBodies : RejectEvent(r, body)

SpecValidation == InitValidation /\ [][NextValidation]_vars

\* updateMetrics on its own: every partial update whose present fields are
\* all falsy or all truthy, on no snapshot, a fresh one and one at zero.
MetricsFields ==
  {"activeUsers", "notificationsSent", "avgResponseTime", "errorRate", "queueSize"}

Partials ==
  { [f \in fs |-> full[f]] :
      fs \in SUBSET MetricsFields,
      full \in { [activeUsers |-> 0, notificationsSent |-> 0, avgResponseTime |-> 0,
                  errorRate |-> "", queueSize |-> 0],
                 [activeUsers |-> 10300, notificationsSent |-> 7, avgResponseTime |-> 31,
                  errorRate |-> "1.50%", queueSize |-> 3] } }

InitUpdate ==
  \E ms \in { << >>, << SeedMetrics(DefaultAvgResponseTime, 1) >>,
               << [SeedMetrics(0, 0) EXCEPT !.activeUsers = 0,
                                            !.notificationsSent = 0,
                                            !.errorRate = "0.00%"] >> } :
    InitWith(ms, Budget(0, 0, 0, 0))

NextUpdate == \E updates \in Partials : CallUpdateMetrics(updates)

SpecUpdate == InitUpdate /\ [][NextUpdate]_vars

\* One invocation at a time whose repository calls may reject.
InitFailure ==
  InitWith(<< SeedMetrics(DefaultAvgResponseTime, 1) >>,
           [Budget(MaxEvents, MaxCycles, 0, 0) EXCEPT !.failures = MaxFailures])

NextFailure ==
  \/ Processor(1)
  \/ CatchError(1)
  \/ \E r \in Reqs : Ingestion(r, Bodies)

SpecFailure == InitFailure /\ [][NextFailure]_vars

\* One invocation at a time in front of subscribers whose socket may throw
\* on send.
InitSendFailure ==
  InitWith(<< SeedMetrics(DefaultAvgResponseTime, 1) >>,
           [Budget(BroadcastEvents, MaxCycles, 0, 0) EXCEPT !.failures = MaxFailures])

NextSendFailure ==
  \/ Processor(1)
  \/ \E c \in ConnIds : BroadcastNotificationThrows(1, c)
  \/ \E r \in Reqs : Ingestion(r, Bodies)
  \/ \E c \in ConnIds : Connections(c)

SpecSendFailure == InitSendFailure /\ [][NextSendFailure]_vars

\* One invocation at a time whose fetch of the batch may reject.
InitFetch ==
  InitWith(<< SeedMetrics(DefaultAvgResponseTime, 1) >>,
           [Budget(MaxEvents, MaxCycles, 0, 0) EXCEPT !.failures = MaxFailures])

NextFetch ==
  \/ Processor(1)
  \/ \E exits \in BOOLEAN : FetchFails(1, exits)
  \/ \E r \in Reqs : Ingestion(r, Bodies)

SpecFetch == InitFetch /\ [][NextFetch]_vars

\* Concurrent calls of updateMetrics, starting without a snapshot.
InitCallers == InitWith(<< >>, Budget(0, 0, 0, MaxClock))

NextCallers ==
  \/ \E k \in Callers, updates \in Partials : CallerRead(k, updates)
  \/ \E k \in Callers : CallerWrite(k)
  \/ Tick

SpecCallers == InitCallers /\ [][NextCallers]_vars

\* One invocation at a time over batches of several events, some with an
\* actor that never resolves, in front of subscribers.
InitOrder ==
  InitWith(<< SeedMetrics(DefaultAvgResponseTime, 1) >>,
           Budget(MaxEvents, MaxCycles, 0, 0))

NextOrder ==
  \/ Processor(1)
  \/ \E r \in Reqs : Ingestion(r, Bodies)
  \/ \E c \in ConnIds : Connections(c)

SpecOrder == InitOrder /\ [][NextOrder]_vars

\* Re-polling: the timer keeps firing one invocation at a time while users
\* appear and repository calls may reject.
InitRetry ==
  InitWith(<< SeedMetrics(DefaultAvgResponseTime, 1) >>,
           [Budget(MaxEvents, MaxCycles + 1, 0, 0) EXCEPT !.failures = MaxFailures])

NextRetry ==
  \/ Processor(1)
  \/ CatchError(1)
  \/ \E r \in Reqs : Ingestion(r, Bodies)
  \/ CreateUser(2)

\* The timer fires and every awaited repository call resolves or rejects.
SpecRetry == InitRetry /\ [][NextRetry]_vars /\ WF_vars(Processor(1))

\* The smoothing rule: processEvents about to read the snapshot for an event
\* it has just marked processed, for every smoothed latency of the snapshot
\* and every deliveryTime of the event.
InitAvg ==
  \E avg \in 0 .. MaxAvg, deliveryTime \in 0 .. MaxDeliveryTime :
    LET ins == [type |-> "like", actorId |-> 1, targetUserId |-> 2,
                contentId |-> None]
        event == EventRow(1, ins)
        row == NotificationRow(1,
                 [ins EXCEPT !.type = "like"] @@
                 [message |-> NotificationMessage("like", UserName(1))], 1)
        ms == << SeedMetrics(avg, 1) >> IN
      /\ users = {1}
      /\ events = << [event EXCEPT !.processed = TRUE] >>
      /\ notifications = markNotificationDelivered(<< row >>, 1, deliveryTime)
      /\ metrics = ms
      /\ now = deliveryTime
      /\ proc = [p \in Procs |->
           IF p = 1
           THEN [IdleProc EXCEPT !.pc = "getLatestMetrics", !.events = << event >>,
                                 !.i = 1, !.startTime = 0, !.actor = getUser(1),
                                 !.message = row.message,
                                 !.notification = Some(row),
                                 !.deliveryTime = deliveryTime,
                                 !.before = {DefaultNotificationsSent}]
           ELSE IdleProc]
      /\ req = [r \in Reqs |-> IdleReq]
      /\ jit = IdleJit
      /\ caller = [k \in Callers |-> IdleCaller]
      /\ conn = [c \in ConnIds |-> NoConn]
      /\ inbox = [c \in ConnIds |-> << >>]
      /\ budget = Budget(0, 0, 0, 0)
      /\ hist = InitHist(ms)

NextAvg ==
  \/ GetLatestMetrics(1)
  \/ UpdateMetricsRead(1)
  \/ UpdateMetricsWrite(1)
  \/ GetUpdatedMetrics(1)

SpecAvg == InitAvg /\ [][NextAvg]_vars

\* The message mapping: one invocation at a time, every kind of event.
EventTypes == {"like", "comment", "share", "follow", "mention", "LIKE"}

AllBodies ==
  { [type |-> t, actorId |-> a, targetUserId |-> 2] : t \in EventTypes, a \in UserIds }
  \cup { [type |-> t, actorId |-> a, targetUserId |-> 1, contentId |-> "post-9"] :
           t \in EventTypes, a \in UserIds }

InitMessage ==
  InitWith(<< SeedMetrics(DefaultAvgResponseTime, 1) >>,
           Budget(MaxEvents, MaxCycles, 0, 0))

NextMessage ==
  \/ Processor(1)
  \/ \E r \in Reqs : Ingestion(r, AllBodies)
  \/ CreateUser(2)

SpecMessage == InitMessage /\ [][NextMessage]_vars

\* ------------------------------------------------------------------ claims

NotificationsOf(e) == { i \in DOMAIN notifications : notifications[i].src = e }

Quiescent ==
  /\ \A p \in Procs : proc[p].pc = "idle"
  /\ \A r \in Reqs : req[r].pc = "idle"
  /\ jit.pc = "idle"

\* C1: once a processing cycle that carried an event with a resolvable actor
\* through has completed, the event is processed and exactly one notification
\* derived from it exists, delivered, with a deliveryTime >= 0.
C1_OneDeliveredNotification ==
  \A e \in hist.completed :
    /\ events[e].processed
    /\ Cardinality(NotificationsOf(e)) = 1
    /\ \A i \in NotificationsOf(e) :
         /\ notifications[i].delivered
         /\ IsSome(notifications[i].deliveryTime)
         /\ Get(notifications[i].deliveryTime) >= 0

\* C2: in every reachable state each event has at most one notification
\* created from it.
C2_AtMostOneNotification ==
  \A e \in DOMAIN events : Cardinality(NotificationsOf(e)) <= 1

\* C3: an event whose actor is (still) unresolvable is not processed, however
\* many cycles have run.
C3_UnresolvableStaysUnprocessed ==
  \A e \in DOMAIN events :
    events[e].actorId \notin users => ~events[e].processed

\* Cycles have skipped events at least twice and an event with an
\* unresolvable actor is still there, unprocessed.
C3_Witness ==
  /\ hist.skips >= 2
  /\ \E e \in DOMAIN events : events[e].actorId \notin users /\ ~events[e].processed

\* C4: with the processor's per-event update and the jitter update
\* interleaved in any way, the snapshot holds both contributions:
\* notificationsSent has gone up by one per processed event and activeUsers
\* is what the jitter timer wrote last.
C4_BothContributions ==
  \A i \in DOMAIN metrics :
    /\ metrics[i].notificationsSent
         = hist.initial[i].notificationsSent + hist.decrements
    /\ metrics[i].activeUsers
         = IF IsSome(hist.jitterWrote) THEN Get(hist.jitterWrote)
           ELSE hist.initial[i].activeUsers

\* Both have completed, and both wrote on the strength of a snapshot that the
\* other had changed since it was read.
C4_Witness ==
  /\ Quiescent
  /\ << "jitter", "notificationsSent" >> \in hist.stale
  /\ << "processor", "activeUsers" >> \in hist.stale

\* C5: starting from a snapshot with queueSize q, once k create-event
\* requests and the processing of m events (q >= m) have all completed,
\* queueSize is q + k - m.
C5_NoLostQueueUpdate ==
  (/\ Quiescent
   /\ hist.initial # << >>
   /\ hist.initial[1].queueSize >= hist.decrements)
  => metrics[1].queueSize
       = hist.initial[1].queueSize + hist.increments - hist.decrements

\* C6: queueSize of the snapshot is never negative.
C6_QueueSizeNonNegative ==
  \A i \in DOMAIN metrics : metrics[i].queueSize >= 0

\* The processor has written its decrement of a queueSize it read as 0,
\* after an ingestion increment.
C6_Witness ==
  /\ hist.increments >= 1
  /\ \E p \in Procs :
       /\ proc[p].pc = "getUpdatedMetrics"
       /\ Get(proc[p].currentMetrics).queueSize = 0

\* C7: a cycle that starts when no event is unprocessed changes no event, no
\* notification and no snapshot, sends nothing and is over at once.
C7_EmptyCycleIsNoOp ==
  [][(/\ budget'.cycles < budget.cycles
      /\ \A e \in DOMAIN events : events[e].processed)
     => UNCHANGED << events, notifications, metrics, inbox, proc >>]_vars

\* A cycle has found the events table non-empty and nothing unprocessed in it.
C7_Witness == \E n \in hist.idleSaw : n > 0


\* An iteration of invocation p ends without an error for an event whose
\* actor resolved.
IterationSucceeds(p) ==
  /\ proc[p].pc \in {"getLatestMetrics", "getUpdatedMetrics"}
  /\ proc'[p].pc \in {"getUser", "idle"}

\* C8: when an event has been processed, every subscriber that has been open
\* since the iteration began has received a notification message for it and,
\* after that, a metrics message whose notificationsSent is one greater than
\* the snapshot's before the event was processed.
C8_NotificationThenMetrics ==
  [][\A p \in Procs :
       IterationSucceeds(p) =>
         \A c \in proc[p].present :
           IsOpen(c)' =>
             \E i, j \in DOMAIN inbox'[c] :
               /\ i < j
               /\ inbox'[c][i].type = "notification"
               /\ inbox'[c][i].data.id = Get(proc[p].notification).id
               /\ inbox'[c][j].type = "metrics"
               /\ IsSome(inbox'[c][j].data)
               /\ Get(inbox'[c][j].data).notificationsSent
                    \in { b + 1 : b \in proc[p].before }]_vars

\* C9: the metrics update of a processed event sets avgResponseTime to
\* (old + deliveryTime) / 2 rounded to the nearest integer, halves up; 23 and
\* 77 give 50.
C9_SmoothingRule ==
  \A p \in Procs :
    proc[p].pc = "getUpdatedMetrics" =>
      LET old == Get(proc[p].currentMetrics).avgResponseTime
          new == metrics[1].avgResponseTime
          sum == old + proc[p].deliveryTime IN
        /\ 2 * new \in {sum, sum + 1}
        /\ (old = 23 /\ proc[p].deliveryTime = 77) => new = 50

\* An update has rounded a half up: 23 and 78 gave 51.
C9_Witness ==
  /\ proc[1].pc = "getUpdatedMetrics"
  /\ Get(proc[1].currentMetrics).avgResponseTime = 23
  /\ proc[1].deliveryTime = 78
  /\ metrics[1].avgResponseTime = 51

\* The message the specification gives for an event type and an actor.
C10_Suffix ==
  [like |-> " liked your post", comment |-> " commented on your post",
   share |-> " shared your post", follow |-> " started following you"]

\* C10: the message of every notification is the actor's username followed
\* by the text of its type, and by "interacted with your content" for any
\* other type.
C10_MessageMapping ==
  \A i \in DOMAIN notifications :
    LET n == notifications[i] IN
      n.message = UserName(n.actorId) \o
                    (IF n.type \in DOMAIN C10_Suffix THEN C10_Suffix[n.type]
                     ELSE " interacted with your content")

\* Notifications exist for a follow by alice and for a type outside the four.
C10_Witness ==
  /\ \E i \in DOMAIN notifications :
       notifications[i].message = "alice started following you"
  /\ \E i \in DOMAIN notifications :
       notifications[i].message = "bob interacted with your content"

\* C11: whenever GET /api/notifications reads the table, every notification
\* it is given is delivered and has a deliveryTime: none is pending.
C11_NoPendingVisible ==
  LET rows == getAllNotifications(DefaultLimit) IN
    \A k \in DOMAIN rows : rows[k].delivered /\ IsSome(rows[k].deliveryTime)

\* A step in which processEvents calls broadcastNotification or
\* broadcastMetrics.
BroadcastStep ==
  \E p \in Procs :
    \/ proc[p].pc = "markEventProcessed" /\ proc'[p].pc = "getLatestMetrics"
    \/ proc[p].pc = "getUpdatedMetrics" /\ proc'[p] # proc[p] /\ budget' = budget

\* C12: a broadcast sends one message {type, data} to each registered
\* connection that is OPEN and nothing to any other, whatever userId is
\* attached, and leaves the registry as it is; nothing else sends.
C12_BroadcastToOpen ==
  [][IF BroadcastStep
     THEN /\ conn' = conn
          /\ \A c \in ConnIds :
               IF conn[c].registered /\ conn[c].readyState = "OPEN"
               THEN /\ Len(inbox'[c]) = Len(inbox[c]) + 1
                    /\ SubSeq(inbox'[c], 1, Len(inbox[c])) = inbox[c]
                    /\ DOMAIN inbox'[c][Len(inbox'[c])] = {"type", "data"}
                    /\ inbox'[c][Len(inbox'[c])].type \in {"notification", "metrics"}
               ELSE inbox'[c] = inbox[c]
     ELSE inbox' = inbox]_vars

\* A connection authenticated as somebody other than the event's target got
\* the notification while open, then closed, and the metrics broadcast that
\* followed passed it over and left it registered.
C12_Witness ==
  \E c \in ConnIds, e \in hist.completed :
    /\ conn[c].registered
    /\ conn[c].readyState = "CLOSED"
    /\ IsSome(conn[c].userId)
    /\ Get(conn[c].userId) # events[e].targetUserId
    /\ Len(inbox[c]) = 1
    /\ inbox[c][1].type = "notification"

\* C13: a create-event request stores one new event, unprocessed, and, when
\* it answers with success and nothing else has written the snapshot since
\* it began, the snapshot's queueSize is one more than when it began.
C13_IngestIncrementsQueue ==
  [][\A r \in Reqs :
       /\ (req[r].pc = "idle" /\ req'[r].pc # "idle")
            => /\ Len(events') = Len(events) + 1
               /\ SubSeq(events', 1, Len(events)) = events
               /\ ~events'[Len(events')].processed
       /\ (/\ req[r].pc # "idle"
           /\ req'[r].pc = "idle"
           /\ req'[r].res = Some(StatusOk)
           /\ metrics = req[r].seen)
            => /\ metrics' # << >>
               /\ \A i \in DOMAIN metrics :
                    metrics'[i].queueSize = req[r].seen[i].queueSize + 1]_vars

\* A body that lacks one of the fields an event must have.
C14_Malformed(body) == ~({"type", "actorId", "targetUserId"} \subseteq DOMAIN body)

\* C14: a create-event request with a malformed body is answered with the
\* validation error at once and stores no event and changes no snapshot.
C14_MalformedChangesNothing ==
  [][\A r \in Reqs :
       (/\ req[r].pc = "idle"
        /\ req'[r] # req[r]
        /\ IsSome(req'[r].body)
        /\ C14_Malformed(Get(req'[r].body)))
       => /\ req'[r].pc = "idle"
          /\ req'[r].res = Some(StatusInvalid)
          /\ UNCHANGED << events, notifications, metrics >>]_vars

\* A malformed request has been answered after a well-formed one had stored
\* its event and raised queueSize to 2.
C14_Witness ==
  \E r \in Reqs :
    /\ req[r].res = Some(StatusInvalid)
    /\ C14_Malformed(Get(req[r].body))
    /\ Len(events) = 1
    /\ metrics[1].queueSize = 2

\* C15: updateMetrics(partial) on an existing snapshot adds no row and
\* leaves in the row the value of partial for each field partial has, the
\* new timestamp, and the previous value of every other field.
C15_UpdateFrame ==
  (IsSome(hist.call) /\ Get(hist.call).before # << >>)
  => LET updates == Get(hist.call).updates
         before == Get(hist.call).before IN
       /\ Len(metrics) = Len(before)
       /\ \A i \in DOMAIN metrics :
            /\ metrics[i].id = before[i].id
            /\ metrics[i].timestamp = now
            /\ \A f \in MetricsFields :
                 metrics[i][f] = IF f \in DOMAIN updates THEN updates[f]
                                 ELSE before[i][f]

\* An update of queueSize to 0 alone has landed on the fresh snapshot.
C15_Witness ==
  /\ IsSome(hist.call)
  /\ Get(hist.call).before = << SeedMetrics(DefaultAvgResponseTime, 1) >>
  /\ Get(hist.call).updates = [queueSize |-> 0]
  /\ metrics[1].queueSize = 0
  /\ metrics[1].activeUsers = DefaultActiveUsers

\* The defaults the specification documents for a first snapshot.
C16_Defaults ==
  [activeUsers |-> 10247, notificationsSent |-> 156429, avgResponseTime |-> 23,
   errorRate |-> "0.03%", queueSize |-> 42]

\* C16: updateMetrics(partial) without a snapshot creates one whose fields
\* are those of partial where partial has them, 0 and "" included, and the
\* documented defaults elsewhere.
C16_InsertTakesPartial ==
  (IsSome(hist.call) /\ Get(hist.call).before = << >>)
  => LET updates == Get(hist.call).updates IN
       /\ Len(metrics) = 1
       /\ \A f \in MetricsFields :
            metrics[1][f] = IF f \in DOMAIN updates THEN updates[f]
                            ELSE C16_Defaults[f]

\* C17: at most one invocation of processEvents is between its
\* getUnprocessedEvents and the end of its loop at any time.
C17_OneCycleAtATime ==
  Cardinality({ p \in Procs : proc[p].pc # "idle" }) <= 1

\* C18: no step turns processed from true to false, and no invocation
\* applies markEventProcessed to an event that is processed already.
C18_ProcessedOnce ==
  [][/\ \A e \in DOMAIN events : events[e].processed => events'[e].processed
     /\ \A p \in Procs :
          (proc[p].pc = "markEventProcessed" /\ proc'[p].pc = "getLatestMetrics")
          => \E e \in DOMAIN events :
               /\ events[e].id = proc[p].events[proc[p].i].id
               /\ ~events[e].processed]_vars

\* The events of invocation p's batch for which an error has been raised,
\* the one raised in this very step included.
FailedBy(p) ==
  proc[p].failed
    \cup (IF budget'.failures < budget.failures
          THEN {proc[p].events[proc[p].i].id} ELSE {})

\* Invocation p's cycle ends in this step.
CycleEnds(p) == proc[p].pc # "idle" /\ proc'[p].pc = "idle"

\* C19: when a cycle ends, every event of its batch for which an error was
\* raised is unprocessed.
C19_FailedStaysUnprocessed ==
  [][\A p \in Procs :
       CycleEnds(p) => \A e \in FailedBy(p) : ~events'[e].processed]_vars

\* C20: when a cycle ends in which an error was raised for one event, every
\* later event of the batch for which none was raised and whose actor
\* resolves is processed and has a notification.
C20_ErrorDoesNotAbortCycle ==
  [][\A p \in Procs :
       CycleEnds(p) =>
         \A i, j \in DOMAIN proc[p].events :
           LET first == proc[p].events[i]
               later == proc[p].events[j] IN
             (/\ i < j
              /\ first.id \in FailedBy(p)
              /\ later.id \notin FailedBy(p)
              /\ later.actorId \in users)
             => /\ events'[later.id].processed
                /\ \E n \in DOMAIN notifications' :
                     notifications'[n].src = later.id]_vars

\* After an error on the first event of its batch the invocation has
\* created the second event's notification and marked the event processed.
C20_Witness ==
  \E p \in Procs :
    /\ proc[p].pc = "getUpdatedMetrics"
    /\ proc[p].i = 2
    /\ proc[p].events[1].id \in proc[p].failed
    /\ events[proc[p].events[2].id].processed
    /\ NotificationsOf(proc[p].events[2].id) # {}

\* Invocation p marks its event processed and a send of the notification
\* broadcast that follows fails.
SendFails(p) ==
  /\ proc[p].pc = "markEventProcessed"
  /\ events' # events
  /\ budget'.failures < budget.failures

\* C21: when the send to one connection fails, every other open connection
\* is sent the message and the processor goes on to the event's metrics
\* update and metrics broadcast.
C21_SendFailureContained ==
  [][\A p \in Procs :
       SendFails(p) =>
         /\ proc'[p].pc = "getLatestMetrics"
         /\ Cardinality({ c \in ConnIds :
                            /\ conn[c].registered
                            /\ conn[c].readyState = "OPEN"
                            /\ inbox'[c] = inbox[c] }) <= 1]_vars

\* C22: when the fetch of the unprocessed events fails, no event,
\* notification or snapshot changes and nothing is sent, and the process and
\* its timer live on for the next tick.
C22_FetchFailureSwallowed ==
  [][(budget'.failures < budget.failures /\ budget'.cycles < budget.cycles)
     => /\ UNCHANGED << events, notifications, metrics, inbox >>
        /\ ~hist'.exited]_vars

\* C23: starting without a snapshot, system_metrics never has more than one
\* row, whatever calls of updateMetrics run and however they interleave, so
\* that getLatestMetrics has one row to return.
C23_OneSnapshotRow ==
  /\ Len(metrics) <= 1
  /\ Cardinality(LatestMetrics(metrics)) <= 1

\* C24: whenever an invocation creates the notification of an event of its
\* batch, marks it delivered, or marks the event processed and broadcasts,
\* no event of the batch that was created later has a notification or is
\* processed yet.
C24_CreationOrder ==
  [][\A p \in Procs :
       (/\ proc[p].pc \in {"createNotification", "markNotificationDelivered",
                            "markEventProcessed"}
        /\ proc'[p] # proc[p])
       => \A k \in DOMAIN proc[p].events :
            LET later == proc[p].events[k] IN
              later.id > proc[p].events[proc[p].i].id
              => /\ NotificationsOf(later.id) = {}
                 /\ ~events[later.id].processed]_vars

\* The invocation is about to mark the second event of its batch processed;
\* the first, created earlier, is processed and its notification was sent.
C24_Witness ==
  \E p \in Procs :
    /\ proc[p].pc = "markEventProcessed"
    /\ proc[p].i = 2
    /\ proc[p].events[1].id < proc[p].events[2].id
    /\ events[proc[p].events[1].id].processed
    /\ NotificationsOf(proc[p].events[1].id) # {}
    /\ \E c \in ConnIds :
         \E m \in DOMAIN inbox[c] :
           /\ inbox[c][m].type = "notification"
           /\ inbox[c][m].data.id \in NotificationsOf(proc[p].events[1].id)

\* C25: an event that is unprocessed, or has no notification, is eventually
\* processed and has a notification once its actor resolves, provided the
\* timer fires again and no repository call rejects any more; earlier skips
\* and failures do not exclude it.
C25_RetryByRePolling ==
  \A e \in 1 .. MaxEvents :
    (/\ e \in DOMAIN events
     /\ ~events[e].processed \/ NotificationsOf(e) = {}
     /\ events[e].actorId \in users
     /\ budget.cycles > 0
     /\ budget.failures = 0)
    ~> (/\ e \in DOMAIN events
        /\ events[e].processed
        /\ NotificationsOf(e) # {})

\* The one event there is was skipped twice for want of its actor and is
\* processed now.
C25_Witness ==
  /\ hist.skips >= 2
  /\ Len(events) = 1
  /\ events[1].actorId = 2
  /\ events[1].processed
  /\ NotificationsOf(1) # {}

\* C26: the step that skips an event whose actor is missing changes no
\* event, notification or snapshot and sends nothing, and when the cycle
\* ends every event of the batch that came after such an event and whose
\* actor resolves is processed and has a notification.
C26_SkipDoesNotBlock ==
  [][\A p \in Procs :
       /\ (/\ proc[p].pc = "getUser"
           /\ proc'[p] # proc[p]
           /\ proc[p].events[proc[p].i].actorId \notin users)
          => UNCHANGED << events, notifications, metrics, inbox >>
       /\ CycleEnds(p) =>
            \A i, j \in DOMAIN proc[p].events :
              LET first == proc[p].events[i]
                  later == proc[p].events[j] IN
                (/\ i < j
                 /\ first.actorId \notin users
                 /\ later.actorId \in users
                 /\ later.id \notin FailedBy(p))
                => /\ events'[later.id].processed
                   /\ \E n \in DOMAIN notifications' :
                        notifications'[n].src = later.id]_vars

\* The invocation skipped the first event of its batch, which has no
\* notification and is unprocessed, and has carried the second through.
C26_Witness ==
  \E p \in Procs :
    /\ proc[p].pc = "getUpdatedMetrics"
    /\ proc[p].i = 2
    /\ proc[p].events[1].actorId \notin users
    /\ ~events[proc[p].events[1].id].processed
    /\ NotificationsOf(proc[p].events[1].id) = {}
    /\ events[proc[p].events[2].id].processed
    /\ NotificationsOf(proc[p].events[2].id) # {}

\* C27: every processed event has a stored notification derived from it
\* that is delivered and has a deliveryTime.
C27_ProcessedHasDelivered ==
  \A e \in DOMAIN events :
    events[e].processed
    => \E n \in NotificationsOf(e) :
         /\ notifications[n].delivered
         /\ IsSome(notifications[n].deliveryTime)

\* An event is processed while an overlapping invocation has just created a
\* second, still pending notification for it.
C27_Witness ==
  \E e \in DOMAIN events :
    /\ events[e].processed
    /\ \E n \in NotificationsOf(e) : ~notifications[n].delivered

\* C28: no step lowers notificationsSent of a snapshot row.
C28_NotificationsSentMonotone ==
  [][\A i \in DOMAIN metrics :
       metrics'[i].notificationsSent >= metrics[i].notificationsSent]_vars

\* C29: each "notification" message sent agrees with the stored notification
\* of that id, as it is when the message is sent, on id, type, targetUserId,
\* message, delivered and deliveryTime, and carries the actor's username.
C29_PayloadMatchesRecord ==
  [][\A p \in Procs :
       (proc[p].pc = "markEventProcessed" /\ proc'[p].pc = "getLatestMetrics")
       => \A c \in ConnIds :
            Len(inbox'[c]) > Len(inbox[c])
            => LET data == inbox'[c][Len(inbox'[c])].data
                   row == notifications[data.id] IN
                 /\ data.id = row.id
                 /\ data.type = row.type
                 /\ data.targetUserId = row.targetUserId
                 /\ data.message = row.message
                 /\ data.delivered = row.delivered
                 /\ data.deliveryTime = row.deliveryTime
                 /\ data.actor = UserName(row.actorId)]_vars

====
